---- MODULE Spec2Model ----
(***************************************************************************)
(* Task-grouped batch sampling of uniem's dataset wrappers, MediDataset    *)
(* and M3EDataset (src/uniem/data.py).                                     *)
(*                                                                         *)
(* Python lists are modelled as TLA+ sequences.  Every integer the code    *)
(* stores (sampled indices, the entries of random_index_list) keeps its    *)
(* Python value, so a stored index i addresses element i + 1 of a          *)
(* sequence.  A MediDataset record is identified by its task name and its  *)
(* position in the loaded json list; an M3E row keeps its two text fields. *)
(* Strings are sequences of one-character strings.                         *)
(***************************************************************************)
EXTENDS Integers, Sequences, FiniteSets, TLC

\* Every json list of at most this many records is loaded by MediDataset.
MaxRecords == 2
\* Largest batch_size (in absolute value) a dataset is constructed with.
MaxBatchSize == 2

VARIABLES
    kind,                  \* "Medi" or "M3E": the class of the object
    batch_size,            \* self.batch_size
    drop_last,             \* self.drop_last
    task_records_map,      \* MediDataset._task_records_map, in insertion order
    m3e_hf_datasets,       \* M3EDataset.m3e_hf_datasets
    with_instruction,      \* whether task_instruction_map is not None
    batched_records,       \* MediDataset.batched_records
    task_batch_index_list, \* M3EDataset.task_batch_index_list
    random_index_list,     \* self.random_index_list
    status,                \* "ok", or the exception the last build raised
    last                   \* the last call on the object and its outcome

vars == <<kind, batch_size, drop_last, task_records_map, m3e_hf_datasets,
          with_instruction, batched_records, task_batch_index_list,
          random_index_list, status, last>>

config == <<kind, batch_size, drop_last, task_records_map, m3e_hf_datasets,
            with_instruction>>

-----------------------------------------------------------------------------
(* Python arithmetic and list indexing *)

\* a // b for a >= 0 and b # 0: the quotient rounded towards minus infinity.
PyFloorDiv(a, b) ==
    IF b > 0 THEN a \div b ELSE 0 - ((a + (0 - b) - 1) \div (0 - b))

\* a % b for a >= 0 and b # 0: the remainder takes the sign of b.
PyMod(a, b) == a - b * PyFloorDiv(a, b)

\* Faulty variant: a list that rejects every negative index.
PyInRangeNonNegative(list, i) == 0 <= i /\ i < Len(list)

\* list[i] is defined for -len <= i < len; IndexError otherwise.
PyInRange(list, i) == (0 - Len(list)) <= i /\ i < Len(list)

\* list[i], a negative i counting from the end.
PyIndex(list, i) == IF i >= 0 THEN list[i + 1] ELSE list[Len(list) + i + 1]

-----------------------------------------------------------------------------
(* torch.utils.data.RandomSampler, replacement = False *)

\* torch.randperm(n).tolist(): every ordering of 0 .. n-1.
RandPerm(n) ==
    {p \in [1..n -> 0..(n - 1)] : \A i, j \in 1..n : i # j => p[i] # p[j]}

\* k full permutations of 0 .. n-1, one after the other.
RECURSIVE FullRounds(_, _)
FullRounds(n, k) ==
    IF k = 0 THEN {<<>>}
    ELSE {p \o r : p \in RandPerm(n), r \in FullRounds(n, k - 1)}

\* Faulty variant: sampling with replacement, m independent draws.
RandomSamplerWithReplacement(n, m) == [1..m -> 0..(n - 1)]

\* list(RandomSampler(data_source, num_samples = m)), n = len(data_source),
\* n > 0 and m > 0: m // n full permutations, then the first m % n entries
\* of one more.
RandomSampler(n, m) ==
    {f \o SubSeq(p, 1, m % n) : f \in FullRounds(n, m \div n), p \in RandPerm(n)}

\* Faulty variant: a global order drawn with replacement.
GlobalOrderWithReplacement(n) == [1..n -> 0..(n - 1)]

\* list(RandomSampler(batches)): one permutation of the batch positions.
\* The sampler rejects an empty data source (num_samples = 0) with ValueError.
GlobalOrder(n) == RandPerm(n)

-----------------------------------------------------------------------------
(* The partitioning shared by both create_or_refresh_data methods *)

\* Faulty variant: without drop_last a batch is added even when batch_size
\* divides the length.
NumSamplesAlwaysPad(n, bs, dl) ==
    LET full == PyFloorDiv(n, bs) * bs
    IN  IF ~dl THEN full + bs ELSE full

\* num_samples of one collection of n records.
NumSamples(n, bs, dl) ==
    LET full == PyFloorDiv(n, bs) * bs
    IN  IF (~dl) /\ PyMod(n, bs) # 0 THEN full + bs ELSE full

\* Faulty variant: the buffer is emitted one item late.
RECURSIVE BatchesOffByOne(_, _, _)
BatchesOffByOne(items, buffer, bs) ==
    IF items = <<>> THEN <<>>
    ELSE LET b == Append(buffer, Head(items))
         IN  IF Len(b) = bs + 1
             THEN <<b>> \o BatchesOffByOne(Tail(items), <<>>, bs)
             ELSE BatchesOffByOne(Tail(items), b, bs)

\* The loop over the sampled items: fill buffer, emit it when it holds
\* batch_size items, start a new one.
RECURSIVE Batches(_, _, _)
Batches(items, buffer, bs) ==
    IF items = <<>> THEN <<>>
    ELSE LET b == Append(buffer, Head(items))
         IN  IF Len(b) = bs
             THEN <<b>> \o Batches(Tail(items), <<>>, bs)
             ELSE Batches(Tail(items), b, bs)

-----------------------------------------------------------------------------
(* MediDataset *)

TaskNames == {"t1", "t2"}

\* The loaded json list, as the task_name of each raw record: every short
\* list, and one where a task of three records is interleaved with a task
\* of one.
MediInputs ==
    UNION {[1..n -> TaskNames] : n \in 0..MaxRecords}
      \cup {<<"t1", "t1", "t2", "t1">>}

\* The record built from the raw record at position src of the json list.
Record(name, src) == [task |-> name, src |-> src]

\* self._task_records_map[task_name].append(record), a defaultdict(list):
\* a new task name is added after the ones already seen.
AppendRecord(map, name, rec) ==
    IF \E k \in DOMAIN map : map[k].name = name
    THEN [k \in DOMAIN map |->
            IF map[k].name = name
            THEN [map[k] EXCEPT !.records = Append(@, rec)]
            ELSE map[k]]
    ELSE Append(map, [name |-> name, records |-> <<rec>>])

\* The grouping loop of __init__ over medi_data[src ..].
RECURSIVE GroupByTask(_, _, _)
GroupByTask(medi_data, src, map) ==
    IF src > Len(medi_data) THEN map
    ELSE GroupByTask(medi_data, src + 1,
                     AppendRecord(map, medi_data[src], Record(medi_data[src], src - 1)))

\* The batches one task contributes: the whole list when num_samples is 0,
\* otherwise the sampled records cut into batches.
MediTaskBatches(records, bs, dl) ==
    LET n  == Len(records)
        ns == NumSamples(n, bs, dl)
    IN  IF ns = 0 THEN {<<records>>}
        ELSE {Batches([k \in DOMAIN d |-> records[d[k] + 1]], <<>>, bs) :
                d \in RandomSampler(n, ns)}

\* Faulty variant: the records of all tasks are sampled as one collection.
RECURSIVE AllRecords(_)
AllRecords(map) ==
    IF map = <<>> THEN <<>> ELSE Head(map).records \o AllRecords(Tail(map))

MediPlansMixed(map, bs, dl) ==
    IF map = <<>> THEN {<<>>} ELSE MediTaskBatches(AllRecords(map), bs, dl)

\* batched_records after the loop over the tasks map[k ..].
RECURSIVE MediPlans(_, _, _)
MediPlans(map, bs, dl) ==
    IF map = <<>> THEN {<<>>}
    ELSE {h \o t : h \in MediTaskBatches(Head(map).records, bs, dl),
                   t \in MediPlans(Tail(map), bs, dl)}

\* Every outcome of MediDataset.create_or_refresh_data.
MediBuild(map, bs, dl) ==
    IF bs = 0 /\ map # <<>>
    THEN {[status |-> "ZeroDivisionError", plan |-> <<>>, order |-> <<>>]}
    ELSE UNION {
           IF plan = <<>>
           THEN {[status |-> "ValueError", plan |-> plan, order |-> <<>>]}
           ELSE {[status |-> "ok", plan |-> plan, order |-> o] :
                   o \in GlobalOrder(Len(plan))} :
           plan \in MediPlans(map, bs, dl)}

-----------------------------------------------------------------------------
(* M3EDataset *)

\* A str value with the given characters, and a value that is not a str.
Str(chars) == [isstr |-> TRUE, s |-> chars]
NotStr == [isstr |-> FALSE, s |-> <<>>]

\* One row of a HfDataset and one M3EHfDatsetWithInfo.
Row(text, text_pos) == [text |-> text, text_pos |-> text_pos]
Info(name, instruction, hf_dataset) ==
    [name |-> name, instruction |-> instruction, hf_dataset |-> hf_dataset]

\* Three rows: valid, whitespace-only anchor, valid with surrounding blanks.
TableMixed ==
    << Row(Str(<<"a", "0">>), Str(<<"p", "0">>)),
       Row(Str(<<" ", " ">>), Str(<<"p", "1">>)),
       Row(Str(<<" ", "a", "2">>), Str(<<"p", "2", " ">>)) >>

\* Two rows, none valid: an empty anchor, a positive that is not a string.
TableInvalid ==
    << Row(Str(<<>>), Str(<<"q", "0">>)),
       Row(Str(<<"b", "1">>), NotStr) >>

\* Two valid rows, and a single valid row.
TableValid ==
    << Row(Str(<<"c", "0">>), Str(<<"r", "0">>)),
       Row(Str(<<"c", "1">>), Str(<<"r", "1">>)) >>
TableOne == << Row(Str(<<"e", "0">>), Str(<<"s", "0">>)) >>

\* The lists of datasets an M3EDataset is constructed with.
M3EInputs ==
    { <<>>,
      << Info("d1", <<"Q", ":">>, TableMixed) >>,
      << Info("d1", <<"Q", ":">>, TableInvalid) >>,
      << Info("d1", <<>>, TableValid), Info("d2", <<"I">>, TableOne) >>,
      << Info("d1", <<>>, <<>>), Info("d2", <<"Q", ":">>, TableInvalid) >> }

\* {dataset.name: dataset.hf_dataset for dataset in m3e_hf_datasets}: the
\* last dataset of a name is the one kept.
NameDatasetMap(datasets) ==
    [nm \in {datasets[k].name : k \in DOMAIN datasets} |->
        LET k == CHOOSE k \in DOMAIN datasets :
                   /\ datasets[k].name = nm
                   /\ \A j \in DOMAIN datasets : datasets[j].name = nm => j <= k
        IN  datasets[k].hf_dataset]

\* {dataset.name: dataset.instruction for dataset in m3e_hf_datasets}.
TaskInstructionMap(datasets) ==
    [nm \in {datasets[k].name : k \in DOMAIN datasets} |->
        LET k == CHOOSE k \in DOMAIN datasets :
                   /\ datasets[k].name = nm
                   /\ \A j \in DOMAIN datasets : datasets[j].name = nm => j <= k
        IN  datasets[k].instruction]

\* str.strip(): the characters it removes at both ends.
Whitespace == {" ", "\t", "\n"}

RECURSIVE LStrip(_)
LStrip(s) == IF s # <<>> /\ Head(s) \in Whitespace THEN LStrip(Tail(s)) ELSE s

RECURSIVE RStrip(_)
RStrip(s) ==
    IF s # <<>> /\ s[Len(s)] \in Whitespace
    THEN RStrip(SubSeq(s, 1, Len(s) - 1))
    ELSE s

Strip(s) == RStrip(LStrip(s))

\* isinstance(text, str) and text.strip(), as a truth value.
is_valid_text(text) == text.isstr /\ Strip(text.s) # <<>>

\* The TaskBatchIndex entries one dataset contributes: none when
\* num_samples is 0, otherwise the sampled row indices cut into batches.
M3ETaskBatches(dataset, bs, dl) ==
    LET n  == Len(dataset.hf_dataset)
        ns == NumSamples(n, bs, dl)
    IN  IF ns = 0 THEN {<<>>}
        ELSE {LET b == Batches(d, <<>>, bs)
              IN  [k \in DOMAIN b |-> [name |-> dataset.name, batch_index |-> b[k]]] :
                d \in RandomSampler(n, ns)}

\* task_batch_index_list after the loop over the datasets.
RECURSIVE M3EPlans(_, _, _)
M3EPlans(datasets, bs, dl) ==
    IF datasets = <<>> THEN {<<>>}
    ELSE {h \o t : h \in M3ETaskBatches(Head(datasets), bs, dl),
                   t \in M3EPlans(Tail(datasets), bs, dl)}

\* Every outcome of M3EDataset.create_or_refresh_data.
M3EBuild(datasets, bs, dl) ==
    IF bs = 0 /\ datasets # <<>>
    THEN {[status |-> "ZeroDivisionError", plan |-> <<>>, order |-> <<>>]}
    ELSE UNION {
           IF plan = <<>>
           THEN {[status |-> "ValueError", plan |-> plan, order |-> <<>>]}
           ELSE {[status |-> "ok", plan |-> plan, order |-> o] :
                   o \in GlobalOrder(Len(plan))} :
           plan \in M3EPlans(datasets, bs, dl)}

\* Faulty variant: the instruction is put in front of the anchor before the
\* anchor is validated.
RECURSIVE PairRecordsPrefixFirst(_, _, _)
PairRecordsPrefixFirst(records, prefixed, instruction) ==
    IF records = <<>> THEN <<>>
    ELSE LET record == Head(records)
             text   == IF prefixed /\ record.text.isstr
                       THEN Str(instruction \o record.text.s)
                       ELSE record.text
             rest   == PairRecordsPrefixFirst(Tail(records), prefixed, instruction)
         IN  IF ~(is_valid_text(text) /\ is_valid_text(record.text_pos))
             THEN rest
             ELSE <<[text |-> text, text_pos |-> record.text_pos]>> \o rest

\* The loop of __getitem__ over the gathered rows: a row with an invalid
\* text or text_pos is skipped, a kept one gets the instruction in front of
\* its text when there is an instruction map.
RECURSIVE PairRecords(_, _, _)
PairRecords(records, prefixed, instruction) ==
    IF records = <<>> THEN <<>>
    ELSE LET record == Head(records)
             rest   == PairRecords(Tail(records), prefixed, instruction)
         IN  IF ~(is_valid_text(record.text) /\ is_valid_text(record.text_pos))
             THEN rest
             ELSE <<[text     |-> IF prefixed
                                  THEN Str(instruction \o record.text.s)
                                  ELSE record.text,
                     text_pos |-> record.text_pos]>> \o rest

-----------------------------------------------------------------------------
(* Lookup *)

Outcome(op, index, outcome, batch) ==
    [op |-> op, index |-> index, outcome |-> outcome, batch |-> batch]

\* MediDataset.__getitem__(index).
MediLookup(order, batched, index) ==
    IF ~PyInRange(order, index)
    THEN Outcome("getitem", index, "IndexError", <<>>)
    ELSE Outcome("getitem", index, "ok", batched[PyIndex(order, index) + 1])

\* The rows hf_dataset[i] for i in batch_index.
Gather(hf_dataset, batch_index) ==
    [k \in DOMAIN batch_index |-> hf_dataset[batch_index[k] + 1]]

\* Faulty variant: a batch left empty by the validation is returned.
M3ELookupNoRaise(order, tbil, datasets, prefixed, index) ==
    IF ~PyInRange(order, index)
    THEN Outcome("getitem", index, "IndexError", <<>>)
    ELSE LET task_batch_index == tbil[PyIndex(order, index) + 1]
             task_name    == task_batch_index.name
             hf_dataset   == NameDatasetMap(datasets)[task_name]
             records      == Gather(hf_dataset, task_batch_index.batch_index)
         IN  Outcome("getitem", index, "ok",
                     PairRecords(records, prefixed,
                                 TaskInstructionMap(datasets)[task_name]))

\* M3EDataset.__getitem__(index).
M3ELookup(order, tbil, datasets, prefixed, index) ==
    IF ~PyInRange(order, index)
    THEN Outcome("getitem", index, "IndexError", <<>>)
    ELSE LET task_batch_index == tbil[PyIndex(order, index) + 1]
             task_name    == task_batch_index.name
             hf_dataset   == NameDatasetMap(datasets)[task_name]
             records      == Gather(hf_dataset, task_batch_index.batch_index)
             pair_records == PairRecords(records, prefixed,
                                         TaskInstructionMap(datasets)[task_name])
         IN  IF pair_records = <<>>
             THEN Outcome("getitem", index, "ValueError", <<>>)
             ELSE Outcome("getitem", index, "ok", pair_records)

\* __len__ of either class.
MediLen == Len(batched_records)
M3ELen == Len(task_batch_index_list)
DatasetLen == IF kind = "Medi" THEN MediLen ELSE M3ELen

-----------------------------------------------------------------------------
(* Construction and the operations on a constructed dataset *)

\* MediDataset.__init__ with a batch_size of BS: the state it leaves.
MediInit(BS) ==
    \E medi_data \in MediInputs, bs \in BS, dl \in BOOLEAN :
      LET map == GroupByTask(medi_data, 1, <<>>)
      IN  \E o \in MediBuild(map, bs, dl) :
            /\ kind = "Medi"
            /\ batch_size = bs
            /\ drop_last = dl
            /\ task_records_map = map
            /\ m3e_hf_datasets = <<>>
            /\ with_instruction = FALSE
            /\ batched_records = o.plan
            /\ task_batch_index_list = <<>>
            /\ random_index_list = o.order
            /\ status = o.status
            /\ last = Outcome("init", 0, "none", <<>>)

\* M3EDataset.__init__ with a batch_size of BS: the state it leaves.
M3EInit(BS) ==
    \E datasets \in M3EInputs, bs \in BS, dl \in BOOLEAN, wi \in BOOLEAN :
      \E o \in M3EBuild(datasets, bs, dl) :
        /\ kind = "M3E"
        /\ batch_size = bs
        /\ drop_last = dl
        /\ task_records_map = <<>>
        /\ m3e_hf_datasets = datasets
        /\ with_instruction = wi
        /\ batched_records = <<>>
        /\ task_batch_index_list = o.plan
        /\ random_index_list = o.order
        /\ status = o.status
        /\ last = Outcome("init", 0, "none", <<>>)

\* A dataset constructed with a positive batch size.
Init == MediInit(1..MaxBatchSize) \/ M3EInit(1..MaxBatchSize)

\* A dataset constructed with any batch size, zero and negative included.
InitAnyBatchSize ==
    \/ MediInit((0 - MaxBatchSize)..MaxBatchSize)
    \/ M3EInit((0 - MaxBatchSize)..MaxBatchSize)

\* MediDataset.create_or_refresh_data() on a constructed dataset.
MediCreateOrRefreshData ==
    /\ kind = "Medi"
    /\ status = "ok"
    /\ \E o \in MediBuild(task_records_map, batch_size, drop_last) :
         /\ batched_records' = o.plan
         /\ random_index_list' = IF o.status = "ok" THEN o.order ELSE random_index_list
         /\ status' = o.status
    /\ last' = Outcome("refresh", 0, "none", <<>>)
    /\ UNCHANGED <<config, task_batch_index_list>>

\* M3EDataset.create_or_refresh_data() on a constructed dataset.
M3ECreateOrRefreshData ==
    /\ kind = "M3E"
    /\ status = "ok"
    /\ \E o \in M3EBuild(m3e_hf_datasets, batch_size, drop_last) :
         /\ task_batch_index_list' = o.plan
         /\ random_index_list' = IF o.status = "ok" THEN o.order ELSE random_index_list
         /\ status' = o.status
    /\ last' = Outcome("refresh", 0, "none", <<>>)
    /\ UNCHANGED <<config, batched_records>>

\* The positions a caller asks for: every valid one, and one past each end.
Positions == (0 - (Len(random_index_list) + 1))..Len(random_index_list)

\* dataset[index] on a MediDataset.
MediGetItem ==
    /\ kind = "Medi"
    /\ status = "ok"
    /\ \E index \in Positions :
         last' = MediLookup(random_index_list, batched_records, index)
    /\ UNCHANGED <<config, batched_records, task_batch_index_list,
                   random_index_list, status>>

\* dataset[index] on an M3EDataset.
M3EGetItem ==
    /\ kind = "M3E"
    /\ status = "ok"
    /\ \E index \in Positions :
         last' = M3ELookup(random_index_list, task_batch_index_list,
                           m3e_hf_datasets, with_instruction, index)
    /\ UNCHANGED <<config, batched_records, task_batch_index_list,
                   random_index_list, status>>

Next ==
    \/ MediCreateOrRefreshData
    \/ M3ECreateOrRefreshData
    \/ MediGetItem
    \/ M3EGetItem

Spec == Init /\ [][Next]_vars

SpecAnyBatchSize == InitAnyBatchSize /\ [][Next]_vars

-----------------------------------------------------------------------------
(* Vocabulary of the properties *)

Range(s) == {s[i] : i \in DOMAIN s}

\* dataset[p] in the current state.
MediLookupAt(p) == MediLookup(random_index_list, batched_records, p)
M3ELookupAt(p) ==
    M3ELookup(random_index_list, task_batch_index_list, m3e_hf_datasets,
              with_instruction, p)
LookupAt(p) == IF kind = "Medi" THEN MediLookupAt(p) ELSE M3ELookupAt(p)

\* The positions 0 .. len(dataset) - 1.
ValidPositions == 0..(DatasetLen - 1)

\* The TaskBatchIndex position p resolves to.
ResolvedAt(p) == task_batch_index_list[random_index_list[p + 1] + 1]

\* The dataset of a name, found by searching the list of datasets.
DatasetNamed(nm) ==
    LET k == CHOOSE k \in DOMAIN m3e_hf_datasets : m3e_hf_datasets[k].name = nm
    IN  m3e_hf_datasets[k]

\* A value is a string with at least one character that is not whitespace.
NonBlankString(v) == v.isstr /\ \E i \in DOMAIN v.s : v.s[i] \notin Whitespace

ValidRow(row) == NonBlankString(row.text) /\ NonBlankString(row.text_pos)

-----------------------------------------------------------------------------
(* C1: task purity *)

\* All records of a MediDataset batch carry one task name.
SameTask(batch) == \A i, j \in DOMAIN batch : batch[i].task = batch[j].task

\* Every record of an M3EDataset batch is a row of the given dataset.
FromDataset(batch, info) ==
    \A i \in DOMAIN batch :
      \E row \in Range(info.hf_dataset) : row.text_pos = batch[i].text_pos

\* C1: after construction and after every refresh, the records returned by
\* dataset[p], for every position p of either wrapper, come from one named
\* collection: no batch mixes the records of two tasks.
TaskPurity ==
    status = "ok" =>
      \A p \in ValidPositions :
        LET r == LookupAt(p)
        IN  r.outcome = "ok" =>
              IF kind = "Medi"
              THEN SameTask(r.batch)
              ELSE \E k \in DOMAIN m3e_hf_datasets :
                     FromDataset(r.batch, m3e_hf_datasets[k])

\* A refreshed MediDataset of two tasks that holds a batch of two records
\* of each task.
TaskPurityWitness ==
    /\ kind = "Medi"
    /\ status = "ok"
    /\ last.op = "refresh"
    /\ Len(task_records_map) = 2
    /\ \A k \in DOMAIN task_records_map :
         \E i \in DOMAIN batched_records :
           /\ Len(batched_records[i]) = 2
           /\ batched_records[i][1].task = task_records_map[k].name

-----------------------------------------------------------------------------
(* C2: short-collection fallback *)

\* The positions of the built batches that belong to collection k.
MediBatchesOf(k) ==
    {i \in DOMAIN batched_records :
       \E j \in DOMAIN batched_records[i] :
         batched_records[i][j].task = task_records_map[k].name}

M3EBatchesOf(k) ==
    {i \in DOMAIN task_batch_index_list :
       task_batch_index_list[i].name = m3e_hf_datasets[k].name}

\* C2: in either wrapper, a collection shorter than batch_size under
\* drop_last = true gets exactly one batch, made of exactly all its records.
ShortCollectionFallback ==
    (status = "ok" /\ drop_last /\ batch_size > 0) =>
      /\ \A k \in DOMAIN task_records_map :
           LET records == task_records_map[k].records
           IN  Len(records) < batch_size =>
                 /\ Cardinality(MediBatchesOf(k)) = 1
                 /\ \A i \in MediBatchesOf(k) : batched_records[i] = records
      /\ \A k \in DOMAIN m3e_hf_datasets :
           LET n == Len(m3e_hf_datasets[k].hf_dataset)
           IN  (0 < n /\ n < batch_size) =>
                 /\ Cardinality(M3EBatchesOf(k)) = 1
                 /\ \A i \in M3EBatchesOf(k) :
                      LET batch_index == task_batch_index_list[i].batch_index
                      IN  Len(batch_index) = n /\ Range(batch_index) = 0..(n - 1)

-----------------------------------------------------------------------------
(* C3: batch size *)

\* The batch is the whole record list of a task with fewer than batch_size
\* records, under drop_last = true.
MediShortCollectionBatch(batch) ==
    /\ drop_last
    /\ Len(batch) < batch_size
    /\ \E k \in DOMAIN task_records_map : task_records_map[k].records = batch

\* The batch holds all rows of a dataset shorter than batch_size, under
\* drop_last = true.
M3EShortCollectionBatch(tbi, batch) ==
    /\ drop_last
    /\ Len(DatasetNamed(tbi.name).hf_dataset) < batch_size
    /\ Len(batch) = Len(DatasetNamed(tbi.name).hf_dataset)

\* The batch is the whole record list of a task for which no sample is
\* drawn (num_samples = 0): for a positive batch_size, exactly the short
\* collections under drop_last = true.
MediFallbackBatch(batch) ==
    \E k \in DOMAIN task_records_map :
      /\ task_records_map[k].records = batch
      /\ NumSamples(Len(batch), batch_size, drop_last) = 0

\* The number of rows a TaskBatchIndex refers to that fail the validation.
InvalidRows(tbi) ==
    Cardinality({k \in DOMAIN tbi.batch_index :
                   ~ValidRow(DatasetNamed(tbi.name).hf_dataset[tbi.batch_index[k] + 1])})

\* C3, as stated: every batch dataset[p] returns, in either wrapper, has
\* exactly batch_size records unless it is the fallback batch of a short
\* collection.
BatchSizeOriginal ==
    status = "ok" =>
      \A p \in ValidPositions :
        LET r == LookupAt(p)
        IN  r.outcome = "ok" =>
              \/ Len(r.batch) = batch_size
              \/ kind = "Medi" /\ MediShortCollectionBatch(r.batch)
              \/ kind = "M3E" /\ M3EShortCollectionBatch(ResolvedAt(p), r.batch)

\* C3, amended: a MediDataset batch has exactly batch_size records unless it
\* is the fallback batch of a short collection; an M3EDataset TaskBatchIndex has exactly batch_size
\* row indices, and dataset[p] returns one record for each of them whose row
\* passes the validation, raising when none does.
BatchSizeAmended ==
    status = "ok" =>
      \A p \in ValidPositions :
        LET r == LookupAt(p)
        IN  IF kind = "Medi"
            THEN /\ r.outcome = "ok"
                 /\ Len(r.batch) = batch_size \/ MediFallbackBatch(r.batch)
            ELSE LET tbi == ResolvedAt(p)
                 IN  /\ Len(tbi.batch_index) = batch_size
                     /\ r.outcome = "ok" =>
                          Len(r.batch) = batch_size - InvalidRows(tbi)
                     /\ r.outcome # "ok" <=> InvalidRows(tbi) = batch_size

\* An M3EDataset returned a batch of fewer than batch_size records because
\* a referenced row was dropped.
BatchSizeWitness ==
    /\ kind = "M3E"
    /\ last.op = "getitem"
    /\ last.index \in ValidPositions
    /\ last.outcome = "ok"
    /\ batch_size = 2
    /\ Len(last.batch) = 1

-----------------------------------------------------------------------------
(* C4: coverage in padding mode *)

\* C4: with drop_last = false, every record of every collection is in at
\* least one batch of the current build.
PaddingCoverage ==
    (status = "ok" /\ ~drop_last) =>
      /\ \A k \in DOMAIN task_records_map :
           \A rec \in Range(task_records_map[k].records) :
             \E i \in DOMAIN batched_records : rec \in Range(batched_records[i])
      /\ \A k \in DOMAIN m3e_hf_datasets :
           \A row \in 0..(Len(m3e_hf_datasets[k].hf_dataset) - 1) :
             \E i \in M3EBatchesOf(k) :
               row \in Range(task_batch_index_list[i].batch_index)

\* A refresh without drop_last that padded a collection of three records to
\* two batches of two, and a collection of one record to a batch of two.
PaddingCoverageWitness ==
    /\ status = "ok"
    /\ ~drop_last
    /\ last.op = "refresh"
    /\ batch_size = 2
    /\ \E k \in DOMAIN task_records_map :
         Len(task_records_map[k].records) = 3 /\ Cardinality(MediBatchesOf(k)) = 2
    /\ \E k \in DOMAIN task_records_map :
         Len(task_records_map[k].records) = 1 /\ Cardinality(MediBatchesOf(k)) = 1

-----------------------------------------------------------------------------
(* C5: batch count *)

\* The lengths of the collections, in order, and the batches built for each.
CollectionSizes ==
    IF kind = "Medi"
    THEN [k \in DOMAIN task_records_map |-> Len(task_records_map[k].records)]
    ELSE [k \in DOMAIN m3e_hf_datasets |-> Len(m3e_hf_datasets[k].hf_dataset)]

BuiltBatches ==
    IF kind = "Medi"
    THEN [k \in DOMAIN task_records_map |-> Cardinality(MediBatchesOf(k))]
    ELSE [k \in DOMAIN m3e_hf_datasets |-> Cardinality(M3EBatchesOf(k))]

RECURSIVE Sum(_)
Sum(ns) == IF ns = <<>> THEN 0 ELSE Head(ns) + Sum(Tail(ns))

\* The batch count the claim gives for a collection of n records.
ExpectedBatches(n, bs, dl) ==
    IF dl \/ n % bs = 0 THEN n \div bs ELSE (n \div bs) + 1

\* The batches cut from one possible sample of a collection of n records:
\* the identity permutation, repeated.
ScenarioBatches(n, bs, dl) ==
    Batches([i \in 1..NumSamples(n, bs, dl) |-> (i - 1) % n], <<>>, bs)

BatchCountInv ==
    /\ Len(ScenarioBatches(10, 4, TRUE)) = 2
    /\ Len(ScenarioBatches(10, 4, FALSE)) = 3
    /\ (status = "ok" /\ batch_size > 0) =>
         /\ DatasetLen = Sum(BuiltBatches)
         /\ \A k \in DOMAIN CollectionSizes :
              (CollectionSizes[k] >= batch_size \/ ~drop_last) =>
                BuiltBatches[k] =
                  ExpectedBatches(CollectionSizes[k], batch_size, drop_last)

\* C5: for a positive batch_size, len(dataset) is the sum of the batches of
\* the collections, a collection of n >= batch_size records (or of any n
\* without drop_last) has floor(n / batch_size) batches, one more when
\* drop_last is false and batch_size does not divide n (2 and 3 batches for
\* n = 10, batch_size = 4), and a refresh leaves len(dataset) unchanged.
BatchCount ==
    /\ []BatchCountInv
    /\ [][(status = "ok" /\ status' = "ok") => DatasetLen' = DatasetLen]_vars

\* A refresh rebuilt three batches: two of a collection of three records
\* padded to four, one of a collection of one record padded to two.
BatchCountWitness ==
    /\ status = "ok"
    /\ last.op = "refresh"
    /\ ~drop_last
    /\ batch_size = 2
    /\ CollectionSizes = <<3, 1>>
    /\ BuiltBatches = <<2, 1>>
    /\ DatasetLen = 3

-----------------------------------------------------------------------------
(* C6: out-of-range lookup *)

\* C6, as stated: dataset[p] raises IndexError for every p outside
\* 0 .. len(dataset) - 1, every negative p included.
OutOfRangeOriginal ==
    (last.op = "getitem" /\ ~(last.index \in ValidPositions)) =>
      last.outcome = "IndexError"

\* C6, amended: dataset[p] raises IndexError exactly for p < -len(dataset)
\* and p >= len(dataset); a p in -len(dataset) .. -1 is resolved as the
\* position p + len(dataset).
OutOfRangeAmended ==
    last.op = "getitem" =>
      /\ last.outcome = "IndexError" <=>
           (last.index < 0 - DatasetLen \/ last.index >= DatasetLen)
      /\ (0 - DatasetLen <= last.index /\ last.index < 0) =>
           /\ last.outcome = LookupAt(last.index + DatasetLen).outcome
           /\ last.batch = LookupAt(last.index + DatasetLen).batch

\* dataset[-1] returned the batch of the last position of two or more.
OutOfRangeWitness ==
    /\ last.op = "getitem"
    /\ last.index = -1
    /\ last.outcome = "ok"
    /\ DatasetLen >= 2
    /\ last.batch = LookupAt(DatasetLen - 1).batch

-----------------------------------------------------------------------------
(* C7: non-positive batch size *)

\* C7: no dataset is constructed with batch_size <= 0.
NonPositiveBatchSizeRejected == batch_size <= 0 => status # "ok"

-----------------------------------------------------------------------------
(* C8: empty-batch detection *)

\* C8: M3EDataset[p] never returns an empty list; when every row of the
\* resolved batch fails the validation the lookup raises.
EmptyBatchDetection ==
    (kind = "M3E" /\ status = "ok") =>
      /\ last.op = "getitem" /\ last.outcome = "ok" => last.batch # <<>>
      /\ \A p \in ValidPositions :
           LET r == M3ELookupAt(p)
               tbi == ResolvedAt(p)
           IN  /\ r.outcome = "ok" => r.batch # <<>>
               /\ InvalidRows(tbi) = Len(tbi.batch_index) => r.outcome = "ValueError"

\* A lookup into a dataset whose rows are all invalid raised.
EmptyBatchWitness ==
    /\ kind = "M3E"
    /\ last.op = "getitem"
    /\ last.index \in ValidPositions
    /\ last.outcome = "ValueError"
    /\ \A row \in Range(DatasetNamed(ResolvedAt(last.index).name).hf_dataset) :
         ~ValidRow(row)

-----------------------------------------------------------------------------
(* C9: row validation and instruction prefixing *)

\* The rows a TaskBatchIndex refers to, in stored order.
RowsOf(tbi) ==
    [k \in DOMAIN tbi.batch_index |->
       DatasetNamed(tbi.name).hf_dataset[tbi.batch_index[k] + 1]]

\* The record of a kept row.
Prefixed(row, nm) ==
    [text     |-> IF with_instruction
                  THEN Str(DatasetNamed(nm).instruction \o row.text.s)
                  ELSE row.text,
     text_pos |-> row.text_pos]

\* The records the claim expects for a TaskBatchIndex.
ExpectedRecords(tbi) ==
    LET kept == SelectSeq(RowsOf(tbi), ValidRow)
    IN  [k \in DOMAIN kept |-> Prefixed(kept[k], tbi.name)]

\* C9: a batch M3EDataset[p] returns is the rows of the resolved
\* TaskBatchIndex in stored order, without the rows whose text or text_pos
\* is not a non-blank string, each kept row with text_pos unchanged and with
\* the instruction directly in front of the raw anchor when with_instruction
\* is true; validity is judged on the raw anchor.
RowValidationAndPrefix ==
    (kind = "M3E" /\ status = "ok") =>
      \A p \in ValidPositions :
        LET r == M3ELookupAt(p)
        IN  ExpectedRecords(ResolvedAt(p)) # <<>> =>
              r.outcome = "ok" /\ r.batch = ExpectedRecords(ResolvedAt(p))

\* With instructions on, a lookup returned one record of a batch of two
\* rows: the whitespace-only anchor was dropped, the other anchor prefixed.
RowValidationWitness ==
    /\ kind = "M3E"
    /\ with_instruction
    /\ last.op = "getitem"
    /\ last.index \in ValidPositions
    /\ last.outcome = "ok"
    /\ Len(ResolvedAt(last.index).batch_index) = 2
    /\ 1 \in Range(ResolvedAt(last.index).batch_index)
    /\ Len(last.batch) = 1
    /\ Head(last.batch[1].text.s) = "Q"

-----------------------------------------------------------------------------
(* C10: the global order across refreshes *)

IsPermutation(order, n) ==
    Len(order) = n /\ \A b \in 0..(n - 1) : \E i \in DOMAIN order : order[i] = b

\* C10: create_or_refresh_data can be called again and again, it leaves the
\* collections, batch_size and drop_last as they are, and after every call
\* random_index_list is a permutation of 0 .. len(dataset) - 1.
GlobalOrderIsPermutation ==
    /\ [](status = "ok" => IsPermutation(random_index_list, DatasetLen))
    /\ [][config' = config]_vars
    /\ [](status = "ok" =>
            IF kind = "Medi" THEN ENABLED MediCreateOrRefreshData
                             ELSE ENABLED M3ECreateOrRefreshData)

\* A refresh produced an order of three batches that is not the identity.
GlobalOrderWitness ==
    /\ status = "ok"
    /\ last.op = "refresh"
    /\ DatasetLen = 3
    /\ random_index_list # <<0, 1, 2>>

====
